---- MODULE Spec2Model ----
(***************************************************************************)
(* nap.rest.views: the REST mixins that turn HTTP verbs into operations on *)
(* model objects through a mapper.  The persistence layer is a table from  *)
(* primary key to field values; each view instance handles one request and *)
(* keeps its request-scoped attributes (self.object, self.data).           *)
(***************************************************************************)
EXTENDS Integers, Sequences, FiniteSets, TLC

\* ------------------------------------------------------------------ bounds
MaxId == 2
MaxVal == 1
\* times, in one run, that a request arrives while another is in flight
MaxOverlaps == 1

\* ------------------------------------------------------------- data model
Fields == {"a", "b"}
Ids == 1..MaxId
Values == 0..MaxVal
\* what a client can put on the wire for a field: a value the field accepts,
\* or one its validation rejects (MaxVal + 1)
WireValues == 0..(MaxVal + 1)
Payloads == UNION {[S -> WireValues] : S \in SUBSET Fields}
Rows == [Fields -> Values]
Handlers == {"h1", "h2"}
NoData == [f \in {} |-> 0]
BlankRow == [f \in Fields |-> 0]

\* http.STATUS
no_status == 0
ok_status == 200
accepted_status == 202
created_status == 201
deleted_status == 204
error_status == 400

VARIABLES store, nextId, view, resp, pool, overlaps

vars == <<store, nextId, view, resp, pool, overlaps>>

\* ------------------------------------------------------------ wire bodies
EmptyBody == [kind |-> "empty"]
ObjectBody(d) == [kind |-> "object", fields |-> d]
ListBody(l) == [kind |-> "list", items |-> l]
ErrorBody(e) == [kind |-> "errors", errors |-> e]

\* response_class(data, status=...)
JsonResponse(data, status) == [status |-> status, body |-> data]

\* ----------------------------------------------------------------- mapper
\* fields of the payload the mapper rejects: a supplied value that fails the
\* field's validation, or (full apply) a field that is not supplied
InvalidFields(data, full) ==
  {f \in Fields : \/ f \in DOMAIN data /\ data[f] \notin Values
                  \/ full /\ f \notin DOMAIN data}

\* ValidationError.error_dict: field -> list of messages
error_dict(data, full) ==
  [f \in InvalidFields(data, full) |->
     IF f \in DOMAIN data THEN <<"invalid">> ELSE <<"required">>]

\* the instance after the mapper has assigned every supplied, accepted field
Assigned(obj, data) ==
  [obj EXCEPT !.fields =
     [f \in Fields |-> IF f \in DOMAIN data /\ data[f] \in Values
                       THEN data[f] ELSE obj.fields[f]]]

\* mapper._apply(data): full replace
mapper_apply(obj, data) ==
  [object |-> Assigned(obj, data), errors |-> error_dict(data, TRUE)]

\* mapper._patch(data): only the supplied fields
mapper_patch(obj, data) ==
  [object |-> Assigned(obj, data), errors |-> error_dict(data, FALSE)]

\* mapper << obj
mapper_reduce(obj) == ObjectBody(obj.fields)

\* flatten_errors(errors): every message as a plain string
flatten_errors(errors) == ErrorBody(errors)

\* ------------------------------------------------------- persistence layer
NoObject == [pk |-> 0, fields |-> BlankRow]
EmptyStore == [i \in {} |-> BlankRow]

\* self.model(): a new, unsaved instance
model == NoObject

\* SingleObjectMixin.get_object(): the row addressed by the URL
get_object(id) == [pk |-> id, fields |-> store[id]]

RECURSIVE Ordered(_)
Ordered(S) ==
  IF S = {} THEN <<>>
  ELSE LET i == CHOOSE x \in S : \A y \in S : x <= y
       IN <<[pk |-> i, fields |-> store[i]]>> \o Ordered(S \ {i})

\* MultipleObjectMixin.get_queryset(): every row, in primary-key order
get_queryset == Ordered(DOMAIN store)

\* save() that issues an INSERT whatever the instance's key
save_insert(obj) ==
  [store |-> (nextId :> obj.fields) @@ store,
   nextId |-> nextId + 1,
   object |-> [obj EXCEPT !.pk = nextId]]

\* self.object.save(): an unsaved instance is inserted under the next key;
\* a saved one has every column written under its key
save(obj) ==
  IF obj.pk = 0
  THEN [store |-> (nextId :> obj.fields) @@ store,
        nextId |-> nextId + 1,
        object |-> [obj EXCEPT !.pk = nextId]]
  ELSE [store |-> (obj.pk :> obj.fields) @@ store,
        nextId |-> nextId,
        object |-> obj]

\* self.object.delete()
delete_row(obj) == [i \in DOMAIN store \ {obj.pk} |-> store[i]]

\* --------------------------------------------------------- MapperMixin
\* get_mapper(obj): the mapper is bound to the instance it is given
get_mapper(obj) == obj

empty_response(status) == JsonResponse(EmptyBody, status)

single_response(obj, status) == JsonResponse(mapper_reduce(obj), status)

multiple_response(object_list, status) ==
  JsonResponse(ListBody([i \in DOMAIN object_list |->
                           mapper_reduce(object_list[i])]), status)

accepted_response == empty_response(accepted_status)

\* created_response answering with ok_status
created_response_ok(obj) == single_response(obj, ok_status)

created_response(obj) == single_response(obj, created_status)

deleted_response(obj) == single_response(obj, deleted_status)

\* error_response answering with ok_status
error_response_ok(errors) == JsonResponse(flatten_errors(errors), ok_status)

error_response(errors) == JsonResponse(flatten_errors(errors), error_status)

\* ok_response answering with created_status
ok_response_created(obj) == single_response(obj, created_status)

\* ObjectMixin.ok_response
ok_response(obj) == single_response(obj, ok_status)

\* attributes a view assembled from these mixins can look up on itself
ViewAttrs ==
  {"get_mapper", "empty_response", "single_response", "multiple_response",
   "accepted_response", "created_response", "deleted_response",
   "error_response", "ok_response"}

\* the clause `except Exception`
Catches_any(exc) == exc # "none"

\* the clause `except ValidationError`
Catches(exc) == exc = "ValidationError"

\* ------------------------------------------------- request-scoped state
NoResponse == JsonResponse(EmptyBody, no_status)
NoPrev == NoResponse

Idle ==
  [pc |-> "idle", method |-> "none", id |-> 0, data |-> NoData,
   object |-> NoObject, pre |-> EmptyStore, prev |-> NoPrev]

NoResp ==
  [method |-> "none", id |-> 0, data |-> NoData, status |-> no_status,
   body |-> EmptyBody, exc |-> "none", fault |-> "none", saves |-> 0,
   pre |-> EmptyStore, prev |-> NoPrev]

\* a request as the dispatcher hands it to a fresh view instance; prev is
\* what the client was answered when it sends the same request again
Request(method, id, data) ==
  [pc |-> "valid", method |-> method, id |-> id, data |-> data,
   object |-> NoObject, pre |-> store,
   prev |-> IF resp.method = method /\ resp.id = id /\ resp.data = data
            THEN JsonResponse(resp.body, resp.status) ELSE NoPrev]

\* the handler returns `response`
Returned(req, response, saves) ==
  [method |-> req.method, id |-> req.id, data |-> req.data,
   status |-> response.status, body |-> response.body,
   exc |-> "none", fault |-> "none", saves |-> saves,
   pre |-> req.pre, prev |-> req.prev]

\* the exception `exc` leaves the handler
Raised(req, exc, saves) ==
  [method |-> req.method, id |-> req.id, data |-> req.data,
   status |-> no_status, body |-> EmptyBody,
   exc |-> exc, fault |-> exc, saves |-> saves,
   pre |-> req.pre, prev |-> req.prev]

\* the handler itself fails with `exc`
Crashed(req, exc, saves) == [Raised(req, exc, saves) EXCEPT !.fault = "none"]

\* a failure inside the try block was caught and answered with `response`
Recovered(req, response, fault, saves) ==
  [Returned(req, response, saves) EXCEPT
     !.fault = IF fault = "ValidationError" THEN "none" ELSE fault]

\* View.dispatch: the request goes to a fresh view instance, of two free
\* instances the first; the client has taken the last response, or sends
\* again the request that response answered
Dispatch(h, method, id, data) ==
  /\ h \in pool
  /\ view[h].pc = "idle"
  /\ h = "h1" \/ view["h1"].pc # "idle"
  /\ \/ resp = NoResp
     \/ resp.method = method /\ resp.id = id /\ resp.data = data
  /\ IF \E g \in pool \ {h} : view[g].pc # "idle"
     THEN overlaps < MaxOverlaps /\ overlaps' = overlaps + 1
     ELSE UNCHANGED overlaps
  /\ UNCHANGED pool

\* the view instance h is past its try block, about to run its *_valid method
Valid(h, method) ==
  /\ h \in pool
  /\ view[h].pc = "valid"
  /\ view[h].method = method
  /\ UNCHANGED <<pool, overlaps>>

\* the request ends in this step
Done(h, outcome) ==
  /\ resp' = outcome
  /\ view' = [view EXCEPT ![h] = Idle]

\* the request stays in flight, to be finished by its *_valid step
Continue(h, req, obj) ==
  /\ view' = [view EXCEPT ![h] = [req EXCEPT !.object = obj]]
  /\ resp' = NoResp

\* failures of the collaborators that are not validation failures
ApplyFailures == {"none", "TypeError"}
SaveFailures == {"none", "DatabaseError"}
ReduceFailures == {"none", "TypeError"}

\* what the try block raises: the collaborator's own failure, else the
\* mapper's ValidationError when it rejected a field
TryRaised(result, failure) ==
  IF failure # "none" THEN failure
  ELSE IF DOMAIN result.errors # {} THEN "ValidationError"
  ELSE "none"

\* e.error_dict of the exception that was caught
ErrorDictOf(result, raised) ==
  IF raised = "ValidationError" THEN result.errors ELSE NoData

\* ------------------------------------------------------------ list views
\* ListMixin.ok_response: looks up self.list_response, passing the bound
\* method ok_response as the status
list_ok_response(req, object_list) ==
  IF "list_response" \in ViewAttrs
  THEN Returned(req, multiple_response(object_list, no_status), 0)
  ELSE Crashed(req, "AttributeError", 0)

\* ListGetMixin.get
list_get(h) ==
  /\ Dispatch(h, "LIST", 0, NoData)
  /\ LET req == Request("LIST", 0, NoData)
         object_list == get_queryset
     IN Done(h, list_ok_response(req, object_list))
  /\ UNCHANGED <<store, nextId>>

\* ListPostMixin.post_invalid
post_invalid(h, req, obj, raised, errors) ==
  /\ Done(h, Recovered(req, error_response(errors), raised, 0))
  /\ UNCHANGED <<store, nextId>>

\* ListPostMixin.post
post(h, data) ==
  /\ Dispatch(h, "POST", 0, data)
  /\ nextId <= MaxId
  /\ \E failure \in ApplyFailures :
       LET req == Request("POST", 0, data)
           result == mapper_apply(get_mapper(model), data)
           raised == TryRaised(result, failure)
       IN IF raised = "none"
          THEN Continue(h, req, result.object) /\ UNCHANGED <<store, nextId>>
          ELSE IF Catches(raised)
          THEN post_invalid(h, req, result.object, raised,
                            ErrorDictOf(result, raised))
          ELSE Done(h, Raised(req, raised, 0)) /\ UNCHANGED <<store, nextId>>

\* ListPostMixin.post_valid
post_valid(h) ==
  /\ Valid(h, "POST")
  /\ \E sf \in SaveFailures, rf \in ReduceFailures :
       LET req == view[h]
           saved == save(req.object)
       IN IF sf # "none"
          THEN Done(h, Raised(req, sf, 0)) /\ UNCHANGED <<store, nextId>>
          ELSE /\ store' = saved.store
               /\ nextId' = saved.nextId
               /\ IF rf # "none"
                  THEN Done(h, Raised(req, rf, 1))
                  ELSE Done(h, Returned(req, created_response(saved.object), 1))

\* ---------------------------------------------------------- object views
\* ObjectGetMixin.get
get(h, id) ==
  /\ Dispatch(h, "GET", id, NoData)
  /\ \E rf \in ReduceFailures :
       LET req == Request("GET", id, NoData)
       IN IF id \notin DOMAIN store
          THEN Done(h, Raised(req, "Http404", 0))
          ELSE IF rf # "none"
          THEN Done(h, Raised(req, rf, 0))
          ELSE Done(h, Returned(req, ok_response(get_object(id)), 0))
  /\ UNCHANGED <<store, nextId>>

\* put_invalid that saves the instance before answering
put_invalid_saving(h, req, obj, raised, errors) ==
  /\ store' = save(obj).store
  /\ nextId' = save(obj).nextId
  /\ Done(h, Recovered(req, error_response(errors), raised, 1))

\* ObjectPutMixin.put_invalid
put_invalid(h, req, obj, raised, errors) ==
  /\ Done(h, Recovered(req, error_response(errors), raised, 0))
  /\ UNCHANGED <<store, nextId>>

\* ObjectPutMixin.put
put(h, id, data) ==
  /\ Dispatch(h, "PUT", id, data)
  /\ \E failure \in ApplyFailures :
       LET req == Request("PUT", id, data)
       IN IF id \notin DOMAIN store
          THEN Done(h, Raised(req, "Http404", 0)) /\ UNCHANGED <<store, nextId>>
          ELSE LET result == mapper_apply(get_mapper(get_object(id)), data)
                   raised == TryRaised(result, failure)
               IN IF raised = "none"
                  THEN Continue(h, req, result.object)
                       /\ UNCHANGED <<store, nextId>>
                  ELSE IF Catches(raised)
                  THEN put_invalid(h, req, result.object, raised,
                                   ErrorDictOf(result, raised))
                  ELSE Done(h, Raised(req, raised, 0))
                       /\ UNCHANGED <<store, nextId>>

\* ObjectPutMixin.put_valid
put_valid(h) ==
  /\ Valid(h, "PUT")
  /\ \E sf \in SaveFailures, rf \in ReduceFailures :
       LET req == view[h]
           saved == save(req.object)
       IN IF sf # "none"
          THEN Done(h, Raised(req, sf, 0)) /\ UNCHANGED <<store, nextId>>
          ELSE /\ store' = saved.store
               /\ nextId' = saved.nextId
               /\ IF rf # "none"
                  THEN Done(h, Raised(req, rf, 1))
                  ELSE Done(h, Returned(req, ok_response(saved.object), 1))

\* patch calling self.mapper._apply(self.data)
patch_apply_full(obj, data) == mapper_apply(obj, data)

\* the call self.mapper._patch(self.data)
patch_apply(obj, data) == mapper_patch(obj, data)

\* ObjectPatchMixin.patch_invalid
patch_invalid(h, req, obj, raised, errors) ==
  /\ Done(h, Recovered(req, error_response(errors), raised, 0))
  /\ UNCHANGED <<store, nextId>>

\* ObjectPatchMixin.patch
patch(h, id, data) ==
  /\ Dispatch(h, "PATCH", id, data)
  /\ \E failure \in ApplyFailures :
       LET req == Request("PATCH", id, data)
       IN IF id \notin DOMAIN store
          THEN Done(h, Raised(req, "Http404", 0)) /\ UNCHANGED <<store, nextId>>
          ELSE LET result == patch_apply(get_mapper(get_object(id)), data)
                   raised == TryRaised(result, failure)
               IN IF raised = "none"
                  THEN Continue(h, req, result.object)
                       /\ UNCHANGED <<store, nextId>>
                  ELSE IF Catches(raised)
                  THEN patch_invalid(h, req, result.object, raised,
                                     ErrorDictOf(result, raised))
                  ELSE Done(h, Raised(req, raised, 0))
                       /\ UNCHANGED <<store, nextId>>

\* ObjectPatchMixin.patch_valid
patch_valid(h) ==
  /\ Valid(h, "PATCH")
  /\ \E sf \in SaveFailures, rf \in ReduceFailures :
       LET req == view[h]
           saved == save(req.object)
       IN IF sf # "none"
          THEN Done(h, Raised(req, sf, 0)) /\ UNCHANGED <<store, nextId>>
          ELSE /\ store' = saved.store
               /\ nextId' = saved.nextId
               /\ IF rf # "none"
                  THEN Done(h, Raised(req, rf, 1))
                  ELSE Done(h, Returned(req, ok_response(saved.object), 1))

\* ObjectDeleteMixin.delete
delete(h, id) ==
  /\ Dispatch(h, "DELETE", id, NoData)
  /\ LET req == Request("DELETE", id, NoData)
     IN IF id \notin DOMAIN store
        THEN Done(h, Raised(req, "Http404", 0))
        ELSE Continue(h, req, get_mapper(get_object(id)))
  /\ UNCHANGED <<store, nextId>>

\* ObjectDeleteMixin.delete_valid
delete_valid(h) ==
  /\ Valid(h, "DELETE")
  /\ \E df \in SaveFailures, rf \in ReduceFailures :
       LET req == view[h]
       IN IF df # "none"
          THEN Done(h, Raised(req, df, 0)) /\ UNCHANGED store
          ELSE /\ store' = delete_row(req.object)
               /\ IF rf # "none"
                  THEN Done(h, Raised(req, rf, 0))
                  ELSE Done(h, Returned(req, deleted_response(req.object), 0))
  /\ UNCHANGED nextId

\* the response (or the error page) has gone to the client
sent ==
  /\ resp # NoResp
  /\ resp' = NoResp
  /\ UNCHANGED <<store, nextId, view, pool, overlaps>>

\* ------------------------------------------------------------ the system
\* any database the application can have been left with: rows under keys
\* the sequence has already handed out
InitDb ==
  /\ store \in UNION {[S -> Rows] : S \in SUBSET Ids}
  /\ nextId \in 1..(MaxId + 1)
  /\ \A i \in DOMAIN store : i < nextId
  /\ view = [h \in Handlers |-> Idle]
  /\ resp = NoResp
  /\ overlaps = 0

\* one request at a time
Init == InitDb /\ pool = {"h1"}

\* two requests may be in flight together
InitConc == InitDb /\ pool = Handlers

\* what the client may send as `method` now: anything once it has taken the
\* last response, before that only the request that response answered
SendIds(method) ==
  IF resp = NoResp THEN Ids
  ELSE IF resp.method = method THEN {resp.id} ELSE {}

SendData(method) ==
  IF resp = NoResp THEN Payloads
  ELSE IF resp.method = method THEN {resp.data} ELSE {}

Next ==
  \/ sent
  \/ \E h \in Handlers :
    \/ list_get(h)
    \/ \E data \in SendData("POST") : post(h, data)
    \/ post_valid(h)
    \/ \E id \in SendIds("GET") : get(h, id)
    \/ \E id \in SendIds("PUT"), data \in SendData("PUT") : put(h, id, data)
    \/ put_valid(h)
    \/ \E id \in SendIds("PATCH"), data \in SendData("PATCH") :
         patch(h, id, data)
    \/ patch_valid(h)
    \/ \E id \in SendIds("DELETE") : delete(h, id)
    \/ delete_valid(h)

Spec == Init /\ [][Next]_vars

SpecConc == InitConc /\ [][Next]_vars

\* ------------------------------------------------------------ properties
\* failures of the collaborators the environment can bring about at will
Injected == {"DatabaseError", "TypeError"}
Healthy == resp.fault \notin Injected
Row(id) == mapper_reduce(get_object(id))

\* C1: a DELETE on an item of the store removes it, and the response has
\* status 204 and an empty body
C1_DeleteAnswersEmpty ==
  (resp.method = "DELETE" /\ resp.id \in DOMAIN resp.pre /\ Healthy) =>
    /\ resp.id \notin DOMAIN store
    /\ resp.status = deleted_status
    /\ resp.body = EmptyBody

\* C2: a GET on the collection returns 200 with the serialization of each
\* member, in collection order
C2_ListAnswersMembers ==
  resp.method = "LIST" =>
    /\ resp.status = ok_status
    /\ resp.body = multiple_response(get_queryset, ok_status).body

\* C3: a POST whose payload passes validation persists exactly one new
\* object built from the payload and returns 201 with its serialization
C3_PostCreates ==
  (resp.method = "POST" /\ Healthy /\ InvalidFields(resp.data, TRUE) = {}) =>
    /\ resp.exc = "none"
    /\ resp.status = created_status
    /\ resp.saves = 1
    /\ \E pk \in DOMAIN store \ DOMAIN resp.pre :
         /\ DOMAIN store = DOMAIN resp.pre \cup {pk}
         /\ \A f \in Fields : store[pk][f] = resp.data[f]
         /\ resp.body = Row(pk)
    /\ \A i \in DOMAIN resp.pre : store[i] = resp.pre[i]

C3_Witness ==
  /\ resp.method = "POST"
  /\ resp.status = created_status
  /\ DOMAIN resp.pre # {}
  /\ resp.body # ObjectBody(BlankRow)

\* C4: a POST, PUT or PATCH whose payload fails validation on a field f
\* returns 400 with a body that maps f to a non-empty list of messages
C4_InvalidAnswers400 ==
  (/\ resp.method \in {"POST", "PUT", "PATCH"}
   /\ Healthy
   /\ resp.method # "POST" => resp.id \in DOMAIN resp.pre) =>
    \A f \in InvalidFields(resp.data, resp.method # "PATCH") :
      /\ resp.exc = "none"
      /\ resp.status = error_status
      /\ resp.body.kind = "errors"
      /\ f \in DOMAIN resp.body.errors
      /\ Len(resp.body.errors[f]) > 0

C4_Witness ==
  /\ resp.method = "PATCH"
  /\ resp.status = error_status
  /\ InvalidFields(resp.data, FALSE) = {"a"}
  /\ "b" \in DOMAIN resp.data

\* C5: a valid PATCH on an existing item changes only the supplied fields
\* of that item, leaves every other item alone, and returns 200 with the
\* serialization of the updated item
C5_PatchFrame ==
  (/\ resp.method = "PATCH"
   /\ Healthy
   /\ resp.id \in DOMAIN resp.pre
   /\ InvalidFields(resp.data, FALSE) = {}) =>
    /\ resp.exc = "none"
    /\ resp.status = ok_status
    /\ DOMAIN store = DOMAIN resp.pre
    /\ \A i \in DOMAIN store \ {resp.id} : store[i] = resp.pre[i]
    /\ \A f \in Fields \ DOMAIN resp.data :
         store[resp.id][f] = resp.pre[resp.id][f]
    /\ \A f \in DOMAIN resp.data : store[resp.id][f] = resp.data[f]
    /\ resp.body = Row(resp.id)

C5_Witness ==
  /\ resp.method = "PATCH"
  /\ resp.status = ok_status
  /\ DOMAIN resp.data = {"a"}
  /\ resp.data["a"] # resp.pre[resp.id]["a"]
  /\ resp.pre[resp.id]["b"] # 0
  /\ DOMAIN store # {resp.id}

\* C6: the same valid PUT sent twice in a row leaves the store after the
\* second as it was after the first, and both are answered 200 with equal
\* bodies
C6_PutIdempotent ==
  (resp.method = "PUT" /\ Healthy /\ resp.prev.status = ok_status) =>
    /\ resp.status = ok_status
    /\ store = resp.pre
    /\ resp.body = resp.prev.body

C6_Witness ==
  /\ resp.method = "PUT"
  /\ resp.status = ok_status
  /\ resp.prev.status = ok_status
  /\ resp.data["a"] # resp.data["b"]

\* C7: a GET on an item never changes the store; an existing item is
\* answered 200 with its serialization, for a missing one the not-found
\* failure leaves the handler and no response is built
C7_GetReads ==
  resp.method = "GET" =>
    /\ store = resp.pre
    /\ resp.saves = 0
    /\ Healthy =>
         IF resp.id \in DOMAIN resp.pre
         THEN /\ resp.exc = "none"
              /\ resp.status = ok_status
              /\ resp.body = ObjectBody(resp.pre[resp.id])
         ELSE /\ resp.exc = "Http404"
              /\ resp.status = no_status

C7_Witness ==
  /\ resp.method = "GET"
  /\ resp.status = ok_status
  /\ resp.body # ObjectBody(BlankRow)
  /\ Cardinality(DOMAIN store) > 1

\* C8: a failure that is not a validation failure leaves the handler as it
\* was raised; no response, 400 or other, is returned for it
C8_OnlyValidationAnswered ==
  resp.fault \in Injected \cup {"Http404"} =>
    /\ resp.status = no_status
    /\ resp.exc = resp.fault

C8_Witness ==
  /\ resp.method = "PATCH"
  /\ resp.fault = "TypeError"
  /\ resp.saves = 0
  /\ resp.id \in DOMAIN store

\* C9: a POST, PUT or PATCH answered 400 has not called save and leaves the
\* store as it found it; one answered 200 or 201 has called save once
C9_InvalidNeverSaves ==
  resp.method \in {"POST", "PUT", "PATCH"} =>
    /\ resp.saves <= 1
    /\ resp.status = error_status =>
         resp.saves = 0 /\ store = resp.pre
    /\ resp.status \in {ok_status, created_status} => resp.saves = 1
    /\ resp.saves = 0 => store = resp.pre

C9_Witness ==
  /\ resp.method = "PUT"
  /\ resp.status = error_status
  /\ \E f \in DOMAIN resp.data :
       resp.data[f] \in Values /\ resp.data[f] # resp.pre[resp.id][f]

\* C10: two valid PATCHes on one item with disjoint supplied fields, in
\* flight together: when the later save is done the item carries the values
\* supplied by both
C10_NoLostUpdate ==
  [][\A h \in Handlers :
       (/\ view[h].pc = "valid"
        /\ view[h].method = "PATCH"
        /\ resp.method = "PATCH"
        /\ resp.status = ok_status
        /\ resp.id = view[h].id
        /\ DOMAIN resp.data \cap DOMAIN view[h].data = {}
        /\ view'[h].pc = "idle"
        /\ resp'.status = ok_status) =>
         /\ \A f \in DOMAIN resp.data : store'[resp.id][f] = resp.data[f]
         /\ \A f \in DOMAIN view[h].data :
              store'[resp.id][f] = view[h].data[f]]_vars

====
